---- MODULE Spec2Model ----
(***************************************************************************)
(* State-machine model of src/src/file_encrypt.c: the interactive menu     *)
(* loop of main, the input/validation helpers, and the chunked XOR         *)
(* transform of encryptFile / decryptFile / xorCipher over a small file    *)
(* system.  Bytes are 0..255, files are byte sequences with permissions.   *)
(***************************************************************************)
EXTENDS Integers, Sequences, FiniteSets, TLC

(* ---------------- program constants (lines 15-18) ---------------------- *)
MAX_KEY_LENGTH == 128
BUFFER_SIZE == 4096
MIN_KEY_LENGTH == 4

(* ---------------- bounds of the model ---------------------------------- *)
\* encryptFile/decryptFile invocations explored in one run
MaxSessions == 2
\* injected I/O faults (fopen/fseek/fread/fwrite/fclose failures) in one run
MaxFaults == 1
\* length of the short test file
SmallLen == 3
\* bytes by which the long test file exceeds one chunk
Extra == 1

(* ---------------- bytes and the byte-wise exclusive-or ----------------- *)
RECURSIVE BitXor(_, _)
BitXor(a, b) ==
    IF a = 0 THEN b
    ELSE IF b = 0 THEN a
    ELSE ((a + b) % 2) + 2 * BitXor(a \div 2, b \div 2)

\* the C operator ^ on two unsigned chars, tabulated once
XorTable == [a \in 0..255 |-> [b \in 0..255 |-> BitXor(a, b)]]

Min(a, b) == IF a < b THEN a ELSE b

(* ---------------- inputs the operator may type ------------------------- *)
Paths == {"a", "b"}
\* a filename line as typed (without its newline); "" is an empty line
NameLines == Paths \cup {""}
\* printable key characters (never NUL, never newline)
KeyChar(i) == 33 + ((i * 7) % 90)
KeyLine(n) == [i \in 1..n |-> KeyChar(i)]
KeyLineLens == {MIN_KEY_LENGTH - 1, MIN_KEY_LENGTH, MAX_KEY_LENGTH - 2,
                MAX_KEY_LENGTH - 1, MAX_KEY_LENGTH + 2}
ConfirmChars == {"y", "Y", "n"}
\* what scanf("%d") may deliver to getChoice: 0 stands for a non-number,
\* 4 for a number out of range
ChoiceInputs == 0..4

(* ---------------- the file system -------------------------------------- *)
NoFile == [exists |-> FALSE, data |-> <<>>, r |-> FALSE, w |-> FALSE]
File(d, r, w) == [exists |-> TRUE, data |-> d, r |-> r, w |-> w]
GenData(n) == [p \in 1..n |-> (11 + 37 * p) % 256]
OtherData == [p \in 1..SmallLen |-> 200 + p]
SrcLens == {0, SmallLen, BUFFER_SIZE + Extra}

VARIABLES
    pc,             \* position in main / encryptFile
    eof,            \* end-of-file indicator of stdin (sticky)
    msg,            \* the last message printed
    choice, inputFile, outputFile, key, confirm,      \* locals of main
    fs,             \* path -> file
    inFile, outFile,        \* FILE* of encryptFile: "NULL", "open", "closed"
    rpos,           \* read position of inFile
    ferr,           \* error indicator of inFile
    fileSize, totalProcessed, result,                 \* locals of encryptFile
    inCloses, outCloses,    \* fclose calls on each handle in this session
    written,        \* bytes fwrite accepted in this session
    shortWrite,     \* a write of this session returned fewer bytes than read
    wbOpened,       \* fopen(outputFile, "wb") succeeded in this session
    outExisted,     \* outputFile named an existing file when it was entered
    prev,           \* the last successful session: source bytes, output, key
    sessions, faults

vars == <<pc, eof, msg, choice, inputFile, outputFile, key, confirm, fs,
          inFile, outFile, rpos, ferr, fileSize, totalProcessed, result,
          inCloses, outCloses, written, shortWrite, wbOpened, outExisted,
          prev, sessions, faults>>

mainLocals == <<choice, inputFile, outputFile, key, confirm>>
encLocals == <<inFile, outFile, rpos, ferr, fileSize, totalProcessed, result,
               inCloses, outCloses, written, shortWrite, wbOpened>>

NoPrev == [ok |-> FALSE, src |-> <<>>, out |-> "", key |-> <<>>]

Init ==
    /\ pc = "menu"
    /\ eof = FALSE
    /\ msg = "banner"
    /\ choice = 0 /\ inputFile = "" /\ outputFile = "" /\ key = <<>>
    /\ confirm = "unset"
    /\ \E n \in SrcLens, b \in {NoFile, File(OtherData, TRUE, TRUE),
                                File(OtherData, FALSE, TRUE),
                                File(OtherData, TRUE, FALSE)} :
          fs = [p \in Paths |-> IF p = "a" THEN File(GenData(n), TRUE, TRUE) ELSE b]
    /\ inFile = "NULL" /\ outFile = "NULL"
    /\ rpos = 0 /\ ferr = FALSE
    /\ fileSize = 0 /\ totalProcessed = 0 /\ result = 0
    /\ inCloses = 0 /\ outCloses = 0 /\ written = 0
    /\ shortWrite = FALSE /\ wbOpened = FALSE /\ outExisted = FALSE
    /\ prev = NoPrev
    /\ sessions = 0 /\ faults = 0


(* ---------------- helpers of main (lines 165-261) ---------------------- *)
\* getFilename: fgets, strip the newline, reject an empty name
getFilename(line, atEof) ==
    IF atEof THEN -1
    ELSE IF line = "" THEN -1
    ELSE 0

\* fileExists: fopen(filename, "r") succeeded
fileExists(f, name) == IF f[name].exists /\ f[name].r THEN 1 ELSE 0

\* variant: the comparison of the two names is lost
SamePath_never(a, b) == FALSE

\* strcmp(inputFile, outputFile) == 0
SamePath(a, b) == a = b

\* tolower on the characters the operator may answer
tolower(c) == IF c = "Y" THEN "y" ELSE c

\* tolower(confirm) != 'y': the overwrite is declined
Declined(c) == tolower(c) # "y"

\* secureKeyInput: fgets(key, maxLen) keeps at most maxLen - 1 characters of
\* the line (its newline included), then a trailing newline is removed
secureKeyInput(line, atEof) ==
    IF atEof THEN <<>>
    ELSE IF Len(line) + 1 <= MAX_KEY_LENGTH - 1 THEN line
    ELSE SubSeq(line, 1, MAX_KEY_LENGTH - 1)

\* variant: the minimum-length check is lost
validateKey_noMin(k) ==
    IF Len(k) >= MAX_KEY_LENGTH - 1 THEN -1
    ELSE 0

validateKey(k) ==
    IF Len(k) < MIN_KEY_LENGTH THEN -1
    ELSE IF Len(k) >= MAX_KEY_LENGTH - 1 THEN -1
    ELSE 0

getEncryptionKey(line, atEof) == validateKey(secureKeyInput(line, atEof))

\* variant: a failed session leaves the main loop
AfterSession_exitOnFailure(res) == IF res = 0 THEN "menu" ELSE "exit"

\* where main continues after encryptFile/decryptFile returned res
AfterSession(res) == "menu"

\* a read of stdin: once end-of-file is seen it is seen by every later read
StdinStates == IF eof THEN {TRUE} ELSE BOOLEAN

\* `continue` / end of the loop body: back to displayMenu; the buffers of
\* main are dead there (each is written again before it is next read)
ToMenu(m) ==
    /\ pc' = "menu"
    /\ msg' = m
    /\ choice' = 0 /\ inputFile' = "" /\ outputFile' = "" /\ key' = <<>>
    /\ confirm' = "unset"
    /\ outExisted' = FALSE

(* ---------------- main (lines 39-122) ---------------------------------- *)
\* getChoice keeps asking until scanf delivers 1, 2 or 3
GetChoiceInvalid ==
    /\ pc = "menu"
    /\ \E atEof \in StdinStates, c \in ChoiceInputs :
          /\ atEof \/ c \notin 1..3
          /\ eof' = atEof
          /\ msg' = IF atEof \/ c = 0 THEN "invalid input" ELSE "invalid choice"
    /\ UNCHANGED <<pc, mainLocals, fs, encLocals, outExisted, prev, sessions, faults>>

GetChoiceExit ==
    /\ pc = "menu"
    /\ ~eof
    /\ choice' = 3
    /\ pc' = "exit"
    /\ msg' = "goodbye"
    /\ UNCHANGED <<eof, inputFile, outputFile, key, confirm, fs, encLocals,
                   outExisted, prev, sessions, faults>>

GetChoiceTransform ==
    /\ pc = "menu"
    /\ ~eof
    /\ sessions < MaxSessions
    /\ \E c \in 1..2 : choice' = c
    /\ pc' = "inName"
    /\ msg' = ""
    /\ UNCHANGED <<eof, inputFile, outputFile, key, confirm, fs, encLocals,
                   outExisted, prev, sessions, faults>>

GetInputFilename ==
    /\ pc = "inName"
    /\ \E atEof \in StdinStates, line \in NameLines :
          /\ eof' = atEof
          /\ IF getFilename(line, atEof) # 0
             THEN ToMenu("bad filename")
             ELSE IF fileExists(fs, line) = 0
             THEN ToMenu("does not exist")
             ELSE /\ inputFile' = line
                  /\ pc' = "outName"
                  /\ msg' = ""
                  /\ UNCHANGED <<choice, outputFile, key, confirm, outExisted>>
    /\ UNCHANGED <<fs, encLocals, prev, sessions, faults>>

GetOutputFilename ==
    /\ pc = "outName"
    /\ \E atEof \in StdinStates, line \in NameLines :
          /\ eof' = atEof
          /\ IF getFilename(line, atEof) # 0
             THEN ToMenu("bad filename")
             ELSE IF SamePath(inputFile, line)
             THEN ToMenu("same file")
             ELSE /\ outputFile' = line
                  /\ outExisted' = fs[line].exists
                  /\ pc' = IF fileExists(fs, line) = 1 THEN "confirm" ELSE "key"
                  /\ msg' = IF fileExists(fs, line) = 1 THEN "overwrite?" ELSE ""
                  /\ UNCHANGED <<choice, inputFile, key, confirm>>
    /\ UNCHANGED <<fs, encLocals, prev, sessions, faults>>

\* scanf(" %c", &confirm): at end-of-file nothing is stored and confirm is
\* read uninitialized, so it may hold any character
ConfirmOverwrite ==
    /\ pc = "confirm"
    /\ \E atEof \in StdinStates, c \in ConfirmChars :
          /\ eof' = atEof
          /\ IF Declined(c)
             THEN ToMenu("cancelled")
             ELSE /\ confirm' = c
                  /\ pc' = "key"
                  /\ msg' = ""
                  /\ UNCHANGED <<choice, inputFile, outputFile, key, outExisted>>
    /\ UNCHANGED <<fs, encLocals, prev, sessions, faults>>

GetKey ==
    /\ pc = "key"
    /\ \E atEof \in StdinStates, n \in KeyLineLens :
          /\ eof' = atEof
          /\ IF getEncryptionKey(KeyLine(n), atEof) # 0
             THEN ToMenu("bad key")
             ELSE /\ key' = secureKeyInput(KeyLine(n), atEof)
                  /\ pc' = "call"
                  /\ msg' = "processing"
                  /\ UNCHANGED <<choice, inputFile, outputFile, confirm, outExisted>>
    /\ UNCHANGED <<fs, encLocals, prev, sessions, faults>>

\* encryptFile(inputFile, outputFile, key) is entered (lines 296-304);
\* choice is not read again once the call is dispatched
EnterEncryptFile ==
    /\ pc' = "fopenIn"
    /\ choice' = 0
    /\ sessions' = sessions + 1
    /\ inFile' = "NULL" /\ outFile' = "NULL"
    /\ rpos' = 0 /\ ferr' = FALSE
    /\ fileSize' = 0 /\ totalProcessed' = 0 /\ result' = 0
    /\ inCloses' = 0 /\ outCloses' = 0 /\ written' = 0
    /\ shortWrite' = FALSE /\ wbOpened' = FALSE
    /\ UNCHANGED <<eof, msg, inputFile, outputFile, key, confirm, fs,
                   outExisted, prev, faults>>

\* choice == 1: result = encryptFile(...)
CallEncryptFile ==
    /\ pc = "call"
    /\ choice = 1
    /\ EnterEncryptFile

\* choice == 2: result = decryptFile(...), which returns encryptFile(...)
CallDecryptFile ==
    /\ pc = "call"
    /\ choice = 2
    /\ EnterEncryptFile

(* ---------------- encryptFile (lines 296-370) -------------------------- *)
\* an I/O call may fail while the fault budget lasts; n faults are already
\* spent in the current step
FaultSet(n) == IF faults + n < MaxFaults THEN BOOLEAN ELSE {FALSE}
Cost(b) == IF b THEN 1 ELSE 0

\* fopen(name, "rb") can succeed
CanOpenForRead(f, name) == f[name].exists /\ f[name].r
\* fopen(name, "wb") can succeed
CanOpenForWrite(f, name) == ~f[name].exists \/ f[name].w
\* variant: the output is opened in append mode
OpenForWrite_append(f, name) ==
    [f EXCEPT ![name] = File(f[name].data, IF f[name].exists THEN f[name].r ELSE TRUE, TRUE)]

\* fopen(name, "wb"): the file is created, or truncated to zero length
OpenForWrite(f, name) ==
    [f EXCEPT ![name] = File(<<>>, IF f[name].exists THEN f[name].r ELSE TRUE, TRUE)]

\* variant: the empty-file check is lost
EmptySource_never(size) == FALSE
\* variant: a short write goes unnoticed
WriteFailed_never(bytesWritten, bytesRead) == FALSE

\* if (fileSize == 0)
EmptySource(size) == size = 0
\* if (bytesWritten != bytesRead)
WriteFailed(bytesWritten, bytesRead) == bytesWritten # bytesRead
\* if (ferror(inFile))
ReadFailed(errIndicator) == errIndicator

\* variant: the key byte is added instead of exclusive-ored
xorCipher_add(data, k) ==
    [i \in 1..Len(data) |-> (data[i] + k[((i - 1) % Len(k)) + 1]) % 256]

\* xorCipher: data[i] ^= key[i % keyLen], i counted from the start of data
xorCipher(data, k) ==
    [i \in 1..Len(data) |-> XorTable[data[i]][k[((i - 1) % Len(k)) + 1]]]

\* variant: an early return forgets fclose(inFile)
ReturnLeakingInput(m) ==
    /\ result' = -1
    /\ msg' = m
    /\ pc' = "ret"
    /\ UNCHANGED <<inFile, inCloses>>

\* return -1 after fclose(inFile), before the output was opened
ReturnClosingInput(m) ==
    /\ inFile' = "closed"
    /\ inCloses' = inCloses + 1
    /\ result' = -1
    /\ msg' = m
    /\ pc' = "ret"

EncOpenInput ==
    /\ pc = "fopenIn"
    /\ \E fault \in FaultSet(0) :
          /\ faults' = faults + Cost(fault)
          /\ IF fault \/ ~CanOpenForRead(fs, inputFile)
             THEN /\ result' = -1
                  /\ msg' = "cannot open input"
                  /\ pc' = "ret"
                  /\ UNCHANGED inFile
             ELSE /\ inFile' = "open"
                  /\ pc' = "size"
                  /\ UNCHANGED <<result, msg>>
    /\ UNCHANGED <<eof, mainLocals, fs, outFile, rpos, ferr, fileSize,
                   totalProcessed, inCloses, outCloses, written, shortWrite,
                   wbOpened, outExisted, prev, sessions>>

\* getFileSize, then the two size checks (lines 314-325)
EncGetFileSize ==
    /\ pc = "size"
    /\ \E fault \in FaultSet(0) :
          /\ faults' = faults + Cost(fault)
          /\ fileSize' = IF fault THEN -1 ELSE Len(fs[inputFile].data)
          /\ IF fileSize' = -1
             THEN ReturnClosingInput("cannot determine size")
             ELSE IF EmptySource(fileSize')
             THEN ReturnClosingInput("input file is empty")
             ELSE /\ pc' = "fopenOut"
                  /\ UNCHANGED <<inFile, inCloses, result, msg>>
    /\ UNCHANGED <<eof, mainLocals, fs, outFile, rpos, ferr, totalProcessed,
                   outCloses, written, shortWrite, wbOpened, outExisted, prev,
                   sessions>>

\* fopen(outputFile, "wb") (lines 327-333)
EncOpenOutput ==
    /\ pc = "fopenOut"
    /\ \E fault \in FaultSet(0) :
          /\ faults' = faults + Cost(fault)
          /\ IF fault \/ ~CanOpenForWrite(fs, outputFile)
             THEN /\ ReturnClosingInput("cannot create output")
                  /\ UNCHANGED <<fs, outFile, wbOpened>>
             ELSE /\ fs' = OpenForWrite(fs, outputFile)
                  /\ outFile' = "open"
                  /\ wbOpened' = TRUE
                  /\ pc' = "loop"
                  /\ UNCHANGED <<inFile, inCloses, result, msg>>
    /\ UNCHANGED <<eof, mainLocals, rpos, ferr, fileSize, totalProcessed,
                   outCloses, written, shortWrite, outExisted, prev, sessions>>

\* one evaluation of the loop condition and, when bytes were read, one
\* iteration of the loop body (lines 336-351)
EncLoop ==
    /\ pc = "loop"
    /\ LET data == fs[inputFile].data
           avail == Min(BUFFER_SIZE, Len(data) - rpos)
       IN \E rf \in FaultSet(0) :
            /\ rf => avail > 0
            /\ \E bytesRead \in (IF rf THEN {0, avail - 1} ELSE {avail}) :
                 /\ ferr' = (ferr \/ rf)
                 /\ rpos' = rpos + bytesRead
                 /\ IF bytesRead = 0
                    THEN /\ pc' = "finish"
                         /\ faults' = faults + Cost(rf)
                         /\ UNCHANGED <<fs, written, shortWrite, result,
                                        totalProcessed, msg>>
                    ELSE LET buf == xorCipher(SubSeq(data, rpos + 1, rpos + bytesRead), key)
                         IN \E wf \in FaultSet(Cost(rf)) :
                              \E bytesWritten \in (IF wf THEN {0, bytesRead - 1}
                                                         ELSE {bytesRead}) :
                                /\ faults' = faults + Cost(rf) + Cost(wf)
                                /\ fs' = [fs EXCEPT ![outputFile].data =
                                             @ \o SubSeq(buf, 1, bytesWritten)]
                                /\ written' = written + bytesWritten
                                /\ shortWrite' = (shortWrite \/ bytesWritten < bytesRead)
                                /\ IF WriteFailed(bytesWritten, bytesRead)
                                   THEN /\ msg' = "write failed"
                                        /\ result' = -1
                                        /\ pc' = "finish"
                                        /\ UNCHANGED totalProcessed
                                   ELSE /\ totalProcessed' = totalProcessed + bytesRead
                                        /\ msg' = "progress"
                                        /\ pc' = "loop"
                                        /\ UNCHANGED result
    /\ UNCHANGED <<eof, mainLocals, inFile, outFile, fileSize, inCloses,
                   outCloses, wbOpened, outExisted, prev, sessions>>

\* after the loop: ferror check and the two fclose calls (lines 353-369)
EncFinish ==
    /\ pc = "finish"
    /\ \E cin \in FaultSet(0) :
         \E cout \in FaultSet(Cost(cin)) :
            /\ faults' = faults + Cost(cin) + Cost(cout)
            /\ result' = IF ReadFailed(ferr) \/ cout THEN -1 ELSE result
            /\ msg' = IF cout THEN "error closing output"
                      ELSE IF cin THEN "error closing input"
                      ELSE IF ReadFailed(ferr) THEN "read failed"
                      ELSE msg
    /\ inFile' = "closed" /\ inCloses' = inCloses + 1
    /\ outFile' = "closed" /\ outCloses' = outCloses + 1
    /\ pc' = "ret"
    /\ UNCHANGED <<eof, mainLocals, fs, rpos, ferr, fileSize, totalProcessed,
                   written, shortWrite, wbOpened, outExisted, prev, sessions>>

\* back in main with result: the success message, then the next iteration
MainResult ==
    /\ pc = "ret"
    /\ prev' = IF result = 0
               THEN [ok |-> TRUE, src |-> fs[inputFile].data,
                     out |-> outputFile, key |-> key]
               ELSE NoPrev
    /\ pc' = AfterSession(result)
    /\ msg' = IF result = 0 THEN "success" ELSE msg
    /\ choice' = 0 /\ inputFile' = "" /\ outputFile' = "" /\ key' = <<>>
    /\ confirm' = "unset" /\ outExisted' = FALSE
    /\ inFile' = "NULL" /\ outFile' = "NULL"
    /\ rpos' = 0 /\ ferr' = FALSE
    /\ fileSize' = 0 /\ totalProcessed' = 0 /\ result' = 0
    /\ inCloses' = 0 /\ outCloses' = 0 /\ written' = 0
    /\ shortWrite' = FALSE /\ wbOpened' = FALSE
    /\ UNCHANGED <<eof, fs, sessions, faults>>

Next ==
    \/ GetChoiceInvalid
    \/ GetChoiceExit
    \/ GetChoiceTransform
    \/ GetInputFilename
    \/ GetOutputFilename
    \/ ConfirmOverwrite
    \/ GetKey
    \/ CallEncryptFile
    \/ CallDecryptFile
    \/ EncOpenInput
    \/ EncGetFileSize
    \/ EncOpenOutput
    \/ EncLoop
    \/ EncFinish
    \/ MainResult

Spec == Init /\ [][Next]_vars

(* ======================= properties ==================================== *)
InSession == pc \in {"fopenIn", "size", "fopenOut", "loop", "finish", "ret"}

\* the bytes of d exclusive-ored with k cycled by the position in the file
XorWhole(d, k) ==
    [p \in 1..Len(d) |-> XorTable[d[p]][k[((p - 1) % Len(k)) + 1]]]

\* C1 (round trip): when a session succeeds whose input is the output of the
\* preceding successful session and whose key is the same, its output holds
\* exactly the bytes the preceding session read.
C1_RoundTrip ==
    (pc = "ret" /\ result = 0 /\ prev.ok /\ inputFile = prev.out /\ key = prev.key)
        => fs[outputFile].data = prev.src

C1_Witness ==
    /\ pc = "ret" /\ result = 0 /\ prev.ok
    /\ inputFile = prev.out /\ key = prev.key
    /\ Len(prev.src) > BUFFER_SIZE
    /\ BUFFER_SIZE % Len(key) # 0
    /\ fs[inputFile].data # prev.src
    /\ fs[outputFile].data = prev.src

\* C2 (key cycling by global offset): after a successful session the
\* destination byte at every position p is D[p] XOR K[p mod len(K)].
C2_GlobalOffset ==
    (pc = "ret" /\ result = 0)
        => fs[outputFile].data = XorWhole(fs[inputFile].data, key)

\* C3 (size preservation): after a successful session the destination has
\* exactly as many bytes as the (non-empty) source, and the bytes written
\* over all chunks equal the bytes read.
C3_SizePreserved ==
    (pc = "ret" /\ result = 0)
        => /\ Len(fs[inputFile].data) > 0
           /\ Len(fs[outputFile].data) = Len(fs[inputFile].data)
           /\ written = rpos
           /\ rpos = Len(fs[inputFile].data)

C3_Witness ==
    /\ pc = "ret" /\ result = 0
    /\ outExisted
    /\ Len(fs[inputFile].data) = BUFFER_SIZE + Extra
    /\ Len(fs[outputFile].data) = BUFFER_SIZE + Extra

\* C4 (empty source): once the input of a session is open and has size
\* zero, the session only returns failure; the destination is never opened
\* and the file system is left as it was.
C4_EmptyRejected ==
    /\ [](InSession /\ inFile # "NULL" /\ Len(fs[inputFile].data) = 0
            => /\ pc \in {"size", "ret"}
               /\ outFile = "NULL" /\ ~wbOpened
               /\ (pc = "ret" => result = -1))
    /\ [][(pc = "size" /\ Len(fs[inputFile].data) = 0)
            => (fs' = fs /\ pc' = "ret" /\ result' = -1)]_vars

C4_Witness ==
    /\ pc = "ret" /\ msg = "input file is empty" /\ result = -1
    /\ outExisted /\ confirm \in {"y", "Y"}
    /\ Len(fs[outputFile].data) > 0

\* C5 (partial write): after a write that returned fewer bytes than were
\* read, the loop is over (no further read, transform or write), the result
\* is failure, and on return both handles are closed.
C5_PartialWrite ==
    shortWrite
        => /\ pc \in {"finish", "ret"}
           /\ result = -1
           /\ (pc = "ret" => inFile = "closed" /\ outFile = "closed")

C5_Witness ==
    /\ shortWrite /\ pc = "ret" /\ result = -1
    /\ rpos < Len(fs[inputFile].data)
    /\ inFile = "closed" /\ outFile = "closed"

C7_DistinctPaths ==
    /\ (pc = "call" \/ InSession) => inputFile # outputFile
    /\ msg = "same file"
        => /\ pc = "menu"
           /\ inFile = "NULL" /\ outFile = "NULL" /\ ~wbOpened
           /\ rpos = 0 /\ written = 0

C7_Witness == msg = "same file" /\ pc = "menu" /\ ~eof

\* C8 (key bounds): every key that reaches encryptFile/decryptFile has a
\* length in [4, 126], so xorCipher never runs with keyLen = 0.
C8_KeyBounds ==
    (pc = "call" \/ InSession) => (Len(key) >= 4 /\ Len(key) <= 126)

C8_Witness == pc = "loop" /\ rpos > 0 /\ Len(key) = 126

\* C9 (overwrite confirmation): a destination that existed when it was
\* named is opened for writing only after the operator answered y or Y.
C9_OverwriteConfirmed ==
    (wbOpened /\ outExisted) => confirm \in {"y", "Y"}

\* C10 (recoverable failure): the loop of main is left only from the menu by
\* choice 3; every rejected input and every return of encryptFile/decryptFile,
\* whatever its result, leads back to the menu.
C10_Recoverable ==
    /\ [](pc = "exit" => choice = 3)
    /\ [][/\ (pc' = "exit" => pc = "menu")
          /\ (pc = "ret" => pc' = "menu")
          /\ (pc \in {"inName", "outName", "confirm", "key"}
                => pc' \in {"menu", "outName", "confirm", "key", "call"})
          /\ (InSession => pc' \in {"menu", "size", "fopenOut", "loop", "finish", "ret"})]_vars

C10_Witness ==
    /\ pc = "inName" /\ sessions >= 1 /\ ~prev.ok

====
